---------------------------- MODULE Spec2Model ----------------------------
(***************************************************************************)
(* Model of src/main.py: the sync command that maps AWX Instance Group USE *)
(* permissions onto dedicated Teams.  The program is one sequential        *)
(* process; every remote call is one step, and every step may be answered  *)
(* by a non-2xx response.  The controller (remote system of record) is     *)
(* modelled by ctl, the fixture it serves by fix.                          *)
(***************************************************************************)
EXTENDS Integers, Sequences, FiniteSets, TLC

VARIABLES
    ctl,     \* mutable controller state: teams (and which of them the runs
             \* created), memberships, role holders
    fix,     \* controller data no run changes, and the command-line options
    loc,     \* the local variables of sync()
    pc,      \* position of sync() (name of the next remote call)
    status,  \* "running", "completed", "exit1", "http_error", "exception"
    prev,    \* how the previous invocation of sync() ended ("none" at first)
    calls    \* every remote call the current invocation issued, in order

vars == <<ctl, fix, loc, pc, status, prev, calls>>

----------------------------------------------------------------------------
(* Bounds of the model *)

MaxUsers == 2
PageSize == 2

----------------------------------------------------------------------------
(* Values *)

None == 0
Unbound == -1

Users == 1..MaxUsers

team_prefix == "t-IG-USE-"
parent_organization == "ADMIN-AREA"
role_from_org_to_allow == <<"admins">>
skip_list_instance_group == {"default", "controlplane"}

\* The instance groups the controller serves, in server order.
InstanceGroups ==
    << [id |-> 1, name |-> "east"],
       [id |-> 2, name |-> "default"],
       [id |-> 3, name |-> "west"] >>

IGIds == {InstanceGroups[i].id : i \in 1..Len(InstanceGroups)}
Retained == {InstanceGroups[i].id : i \in
               {j \in 1..Len(InstanceGroups) :
                  InstanceGroups[j].name \notin skip_list_instance_group}}

ParentOrg == [id |-> 1, name |-> parent_organization]
OtherOrg == [id |-> 2, name |-> "org-a"]
OrgIds == {ParentOrg.id, OtherOrg.id}

NoEntity == [id |-> None, name |-> ""]

\* team_name = f"{team_prefix}{instance_group['name']}"
TeamName(ig_name) == <<team_prefix, ig_name>>
TeamNames == {TeamName(InstanceGroups[i].name) : i \in 1..Len(InstanceGroups)}

\* Ids the controller gives to the team of an instance group and to the
\* object roles of instance groups and teams (role ids are entity-scoped).
TeamIdOf(name) ==
    LET i == CHOOSE j \in 1..Len(InstanceGroups) :
                 TeamName(InstanceGroups[j].name) = name
    IN  10 + InstanceGroups[i].id
TeamIds == {TeamIdOf(n) : n \in TeamNames}
RetainedTeamNames ==
    {TeamName(InstanceGroups[i].name) : i \in
        {j \in 1..Len(InstanceGroups) : InstanceGroups[j].id \in Retained}}
UseRoleId(ig_id) == 100 + ig_id
MemberRoleId(team_id) == 200 + team_id
AdminRoleId(entity_id) == 300 + entity_id

----------------------------------------------------------------------------
(* Helpers *)

Min(S) == CHOOSE x \in S : \A y \in S : x <= y

RECURSIVE SortedSeq(_)
SortedSeq(S) ==
    IF S = {} THEN <<>>
    ELSE LET m == Min(S) IN <<m>> \o SortedSeq(S \ {m})

Range(s) == {s[i] : i \in 1..Len(s)}

\* A list of user entities, in server order (by id).
UserEntities(S) == LET ids == SortedSeq(S) IN [i \in 1..Len(ids) |-> [id |-> ids[i]]]

RECURSIVE Ids(_)
\* map(lambda user: user["id"], role_users)
Ids(entities) ==
    IF entities = <<>> THEN <<>>
    ELSE <<Head(entities).id>> \o Ids(Tail(entities))

----------------------------------------------------------------------------
(* What the controller serves *)

ServedOrganizations ==
    IF fix.parent THEN <<ParentOrg, OtherOrg>> ELSE <<OtherOrg>>

ServedIgObjectRoles(ig_id) ==
    <<[id |-> AdminRoleId(ig_id), name |-> "Admin"]>>
    \o (IF fix.has_use[ig_id]
        THEN <<[id |-> UseRoleId(ig_id), name |-> "Use"]>> ELSE <<>>)

ServedTeamObjectRoles(team_id) ==
    <<[id |-> AdminRoleId(team_id), name |-> "Admin"]>>
    \o (IF fix.has_member[team_id]
        THEN <<[id |-> MemberRoleId(team_id), name |-> "Member"]>> ELSE <<>>)

IsReferenced(g, ig_ids) == g.id \in ig_ids

\* GET organizations/{id}/instance_groups
ServedOrgInstanceGroups(org_id) ==
    LET Referenced(g) == IsReferenced(g, fix.org_igs[org_id])
    IN  SelectSeq(InstanceGroups, Referenced)

\* GET roles/{id}/users: the users holding the role directly.
ServedRoleUsers(role_id) ==
    IF \E g \in IGIds : role_id = UseRoleId(g)
    THEN UserEntities(ctl.use_users[CHOOSE g \in IGIds : role_id = UseRoleId(g)])
    ELSE <<>>

\* One page of a listing: results and the "next" cursor (None on the last).
Page(full, offset) ==
    [results |-> SubSeq(full, offset + 1,
                        IF offset + PageSize < Len(full)
                        THEN offset + PageSize ELSE Len(full)),
     next |-> IF offset + PageSize < Len(full) THEN offset + PageSize ELSE None]

----------------------------------------------------------------------------
(* The calls sync() issues *)

Call(verb, ent, id, sub, page, role, dis, name) ==
    [verb |-> verb, ent |-> ent, id |-> id, sub |-> sub,
     page |-> page, role |-> role, disassociate |-> dis, name |-> name,
     ok |-> TRUE]

\* GET {base}/api/v2/{ent}/{id}/{sub}/?page_size=... (one page)
GetCall(ent, id, sub) == Call("GET", ent, id, sub, loc.url, None, FALSE, <<>>)
\* GET {base}/api/v2/{ent}/?page_size=1&page=1&name__exact=...
FindCall(ent, name) == Call("GET", ent, None, "find", 0, None, FALSE, name)
\* POST {base}/api/v2/teams/ {"name": ..., "organization": ...}
CreateTeamCall(name) == Call("POST", "teams", None, "", 0, None, FALSE, name)
\* POST {base}/api/v2/{ent}/{id}/roles/ {"id": role[, "disassociate": true]}
RoleCall(ent, id, role, dis) == Call("POST", ent, id, "roles", 0, role, dis, <<>>)

\* RaiseForStatus with the error swallowed: the run goes on and asks again
RaiseForStatus_Swallowed(call) ==
    /\ calls' = Append(calls, [call EXCEPT !.ok = FALSE])
    /\ UNCHANGED <<ctl, fix, loc, pc, status, prev>>

\* response.raise_for_status() on a non-2xx answer: the HTTPError is caught
\* nowhere, so it ends the run.
RaiseForStatus(call) ==
    /\ calls' = Append(calls, [call EXCEPT !.ok = FALSE])
    /\ status' = "http_error"
    /\ UNCHANGED <<ctl, fix, loc, pc, prev>>

\* GetAllEntities keeping the results of the page just read only
GetAllEntities_LastPage(full) ==
    LET response == Page(full, loc.url)
    IN  [entities |-> response.results, next |-> response.next]

\* entities.extend(response["results"]); follow response["next"] until None.
GetAllEntities(full) ==
    LET response == Page(full, loc.url)
    IN  [entities |-> loc.entities \o response.results, next |-> response.next]

\* The locals between two calls of _controller_get_all_entities.
Returned(l) == [l EXCEPT !.url = 0, !.entities = <<>>]

InitLoc ==
    [url |-> 0, entities |-> <<>>,
     instance_groups |-> <<>>, org |-> NoEntity, team_map |-> <<>>,
     ig_idx |-> 0, ig_use_role_id |-> None, users_with_use_role |-> <<>>,
     team |-> NoEntity,
     organizations |-> <<>>, org_idx |-> 0, role_idx |-> 0, role_users |-> <<>>,
     org_instance_groups |-> <<>>, allowed_users_per_ig |-> <<>>,
     team_idx |-> 0, team_user_list |-> <<>>, user_idx |-> 0,
     target_list |-> {}, current_user_list_id |-> {}, target_todo |-> {},
     member_role_id |-> None, user_id |-> Unbound,
     \* what the listings of this run returned (kept for the properties)
     seen_use_users |-> <<>>, seen_team_users |-> <<>>]


\* Dictionaries (team_map, allowed_users_per_ig) are sequences of entries in
\* insertion order, as a Python dict iterates them.
HasKey(dict, key) == \E i \in 1..Len(dict) : dict[i].name = key
Lookup(dict, key) == dict[CHOOSE i \in 1..Len(dict) : dict[i].name = key]
Store(dict, entry) ==
    IF HasKey(dict, entry.name)
    THEN [i \in 1..Len(dict) |-> IF dict[i].name = entry.name THEN entry ELSE dict[i]]
    ELSE Append(dict, entry)

\* for role in roles: if role["name"] == name: id = role["id"]; break
RoleIdNamed(roles, name) ==
    IF \E i \in 1..Len(roles) : roles[i].name = name
    THEN roles[Min({i \in 1..Len(roles) : roles[i].name = name})].id
    ELSE None

\* _controller_find_first_entity("teams", name__exact, organization__name__exact)
FoundTeam(name) ==
    IF ctl.teams[name] > 0
    THEN [id |-> TeamIdOf(name), name |-> name]
    ELSE NoEntity

\* Effect on the controller of POST teams/{id}/roles {"id": role}
TeamRoleEffect(c, team_id, role) ==
    IF role = None THEN c
    ELSE [c EXCEPT !.team_roles[team_id] = @ \cup {role}]

\* Effect on the controller of POST users/{id}/roles {"id": role, ...}
UserRoleEffect(c, user, role, dis) ==
    IF \E g \in IGIds : role = UseRoleId(g)
    THEN LET g == CHOOSE h \in IGIds : role = UseRoleId(h)
         IN  [c EXCEPT !.use_users[g] = IF dis THEN @ \ {user} ELSE @ \cup {user}]
    ELSE IF \E t \in TeamIds : role = MemberRoleId(t)
    THEN LET t == CHOOSE h \in TeamIds : role = MemberRoleId(h)
         IN  [c EXCEPT !.members[t] = IF dis THEN @ \ {user} ELSE @ \cup {user}]
    ELSE c

Goto(t) == pc' = t.pc /\ loc' = t.loc /\ status' = t.status

\* One request of the while loop of _controller_get_all_entities; then is
\* where the caller goes with the entities returned after the last page.
Paged(call, full, then) ==
    \/ RaiseForStatus(call)
    \/ LET r == GetAllEntities(full)
       IN  /\ calls' = Append(calls, call)
           /\ UNCHANGED <<ctl, fix, prev>>
           /\ IF r.next # None
              THEN /\ loc' = [loc EXCEPT !.url = r.next, !.entities = r.entities]
                   /\ UNCHANGED <<pc, status>>
              ELSE Goto(then)

\* What _controller_get_all_entities returns once the last page is read.
Entities(full) == GetAllEntities(full).entities

----------------------------------------------------------------------------
(* Initial states: what the controller holds before the first run *)

\* Sets of user ids the initial memberships draw from: none, the first, the
\* last, all.
UserSets == {{}, {1}, {MaxUsers}, Users}

\* Fixtures: at most one entity lacks its role; the parent organization has
\* no admin or user 1; org-a references the first instance group only.
Fixtures ==
    {f \in [cleanup_use_role : BOOLEAN,
            parent : BOOLEAN,
            has_use : {h \in [IGIds -> BOOLEAN] : \A g \in IGIds \ Retained : h[g]},
            has_member : {h \in [TeamIds -> BOOLEAN] :
                            \A n \in TeamNames \ RetainedTeamNames : h[TeamIdOf(n)]},
            org_users : [OrgIds -> [Range(role_from_org_to_allow)
                                      -> {{}, {1}, Users}]],
            org_igs : {[o \in OrgIds |-> IF o = OtherOrg.id THEN {1} ELSE {}]}] :
        /\ Cardinality({g \in IGIds : ~f.has_use[g]})
             + Cardinality({t \in TeamIds : ~f.has_member[t]}) <= 1
        /\ \A r \in Range(role_from_org_to_allow) :
              f.org_users[ParentOrg.id][r] \subseteq (IF f.parent THEN {1} ELSE {})}

\* Controller states before the first run: teams exist only for retained
\* instance groups and only under an existing parent organization; a missing
\* team has no member; the skipped instance group has direct Use holders,
\* among the retained ones only the last may have.
Controllers(parent) ==
    {c \in [teams : {t \in [TeamNames -> 0..1] :
                       /\ \A n \in TeamNames \ RetainedTeamNames : t[n] = 0
                       /\ ~parent => \A n \in TeamNames : t[n] = 0},
            members : IF parent THEN [TeamIds -> UserSets] ELSE {[t \in TeamIds |-> {}]},
            team_roles : {[t \in TeamIds |-> {}]},
            created : {{}},
            use_users : {u \in [IGIds -> {{}, Users}] :
                           /\ \A g \in IGIds \ Retained : u[g] = Users
                           /\ u[Min(Retained)] = {}}] :
        \A n \in TeamNames : c.teams[n] = 0 => c.members[TeamIdOf(n)] = {}}

Init ==
    /\ fix \in Fixtures
    /\ ctl \in Controllers(fix.parent)
    /\ loc = InitLoc
    /\ pc = "instance_groups"
    /\ status = "running"
    /\ prev = "none"
    /\ calls = <<>>

----------------------------------------------------------------------------
(* Orchestrator and Instance Group registry builder: main.py 223-344 *)

IsRunning == status = "running"

\* NextInstanceGroup without the skip-list test
NextInstanceGroup_NoSkip(l, i) ==
    IF i > Len(l.instance_groups)
    THEN [pc |-> "organizations", status |-> "running",
          loc |-> [l EXCEPT !.ig_idx = Len(l.instance_groups) + 1]]
    ELSE [pc |-> "ig_object_roles", status |-> "running",
          loc |-> [l EXCEPT !.ig_idx = i]]

\* for instance_group in instance_groups: if name not in skip list
NextInstanceGroup(l, i) ==
    LET todo == {k \in i..Len(l.instance_groups) :
                   l.instance_groups[k].name \notin skip_list_instance_group}
    IN  IF todo = {}
        THEN [pc |-> "organizations", status |-> "running",
              loc |-> [l EXCEPT !.ig_idx = Len(l.instance_groups) + 1]]
        ELSE [pc |-> "ig_object_roles", status |-> "running",
              loc |-> [l EXCEPT !.ig_idx = Min(todo)]]

instance_group == loc.instance_groups[loc.ig_idx]
team_name == TeamName(instance_group.name)

ListInstanceGroups ==
    /\ IsRunning /\ pc = "instance_groups"
    /\ Paged(GetCall("instance_groups", None, ""), InstanceGroups,
             [pc |-> "find_org", status |-> "running",
              loc |-> [Returned(loc) EXCEPT
                         !.instance_groups = Entities(InstanceGroups)]])

\* FindParentOrg without the "if org is None: exit(1)" test
FindParentOrg_NoExit ==
    /\ IsRunning /\ pc = "find_org"
    /\ LET call == FindCall("organizations", <<parent_organization>>)
           org == IF fix.parent THEN ParentOrg ELSE NoEntity
       IN  \/ RaiseForStatus(call)
           \/ /\ calls' = Append(calls, call)
              /\ UNCHANGED <<ctl, fix, prev>>
              /\ Goto(NextInstanceGroup(
                            [loc EXCEPT !.org = org, !.team_map = <<>>], 1))

FindParentOrg ==
    /\ IsRunning /\ pc = "find_org"
    /\ LET call == FindCall("organizations", <<parent_organization>>)
           org == IF fix.parent THEN ParentOrg ELSE NoEntity
       IN  \/ RaiseForStatus(call)
           \/ /\ calls' = Append(calls, call)
              /\ UNCHANGED <<ctl, fix, prev>>
              /\ IF org.id = None
                 THEN /\ status' = "exit1"
                      /\ loc' = [loc EXCEPT !.org = org]
                      /\ UNCHANGED pc
                 ELSE Goto(NextInstanceGroup(
                               [loc EXCEPT !.org = org, !.team_map = <<>>], 1))

GetIgObjectRoles ==
    /\ IsRunning /\ pc = "ig_object_roles"
    /\ Paged(GetCall("instance_groups", instance_group.id, "object_roles"),
             ServedIgObjectRoles(instance_group.id),
             [pc |-> IF fix.cleanup_use_role THEN "use_role_users" ELSE "find_team",
              status |-> "running",
              loc |-> [Returned(loc) EXCEPT
                         !.ig_use_role_id =
                             RoleIdNamed(Entities(ServedIgObjectRoles(
                                             instance_group.id)), "Use")]])

ListUseRoleUsers ==
    /\ IsRunning /\ pc = "use_role_users"
    /\ LET call == GetCall("roles", loc.ig_use_role_id, "users")
           e == Entities(ServedRoleUsers(loc.ig_use_role_id))
       IN  IF loc.ig_use_role_id = None
           THEN RaiseForStatus(call)   \* roles/None/users is no resource
           ELSE Paged(call, ServedRoleUsers(loc.ig_use_role_id),
                                 [pc |-> IF e # <<>> THEN "remove_use_role"
                                                     ELSE "find_team",
                                  status |-> "running",
                                  loc |-> [Returned(loc) EXCEPT
                                     !.users_with_use_role = e,
                                     !.seen_use_users = Append(@,
                                         [ig |-> instance_group.id,
                                          role |-> loc.ig_use_role_id,
                                          users |-> Range(Ids(e))])]])

\* data={"id": ig_use_role_id, disassociate: True}: the name disassociate is
\* bound nowhere, so building the payload raises NameError before any call.
RemoveUseRole ==
    /\ IsRunning /\ pc = "remove_use_role"
    /\ status' = "exception"
    /\ UNCHANGED <<ctl, fix, loc, pc, prev, calls>>

\* FindTeam with the lookup result ignored: the team is always created
FindTeam_AlwaysCreate ==
    /\ IsRunning /\ pc = "find_team"
    /\ LET call == FindCall("teams", team_name)
       IN  \/ RaiseForStatus(call)
           \/ /\ calls' = Append(calls, call)
              /\ loc' = [loc EXCEPT !.team = NoEntity]
              /\ pc' = "create_team"
              /\ UNCHANGED <<ctl, fix, status, prev>>

FindTeam ==
    /\ IsRunning /\ pc = "find_team"
    /\ LET call == FindCall("teams", team_name)
           team == FoundTeam(team_name)
       IN  \/ RaiseForStatus(call)
           \/ /\ calls' = Append(calls, call)
              /\ loc' = [loc EXCEPT !.team = team]
              /\ pc' = IF team.id = None THEN "create_team" ELSE "grant_use"
              /\ UNCHANGED <<ctl, fix, status, prev>>

CreateTeam ==
    /\ IsRunning /\ pc = "create_team"
    /\ LET call == CreateTeamCall(team_name)
       IN  \/ RaiseForStatus(call)
           \/ /\ calls' = Append(calls, call)
              /\ ctl' = [ctl EXCEPT !.teams[team_name] = @ + 1,
                                    !.created = @ \cup {team_name}]
              /\ pc' = "refetch_team"
              /\ UNCHANGED <<fix, loc, status, prev>>

RefetchTeam ==
    /\ IsRunning /\ pc = "refetch_team"
    /\ LET call == FindCall("teams", team_name)
       IN  \/ RaiseForStatus(call)
           \/ /\ calls' = Append(calls, call)
              /\ loc' = [loc EXCEPT !.team = FoundTeam(team_name)]
              /\ pc' = "grant_use"
              /\ UNCHANGED <<ctl, fix, status, prev>>

GrantUse ==
    /\ IsRunning /\ pc = "grant_use"
    /\ LET call == RoleCall("teams", loc.team.id, loc.ig_use_role_id, FALSE)
       IN  \/ RaiseForStatus(call)
           \/ /\ calls' = Append(calls, call)
              /\ ctl' = TeamRoleEffect(ctl, loc.team.id, loc.ig_use_role_id)
              /\ Goto(NextInstanceGroup(
                        [loc EXCEPT !.team_map =
                            Store(@, [name |-> team_name, team |-> loc.team])],
                        loc.ig_idx + 1))
              /\ UNCHANGED <<fix, prev>>

----------------------------------------------------------------------------
(* Desired-membership calculator: main.py 346-391 *)

\* AddRoleUsers with the users of the entry replaced by the role users of
\* the current pass instead of extended by them
RECURSIVE AddRoleUsers_Overwrite(_, _, _)
AddRoleUsers_Overwrite(allowed, team_map, role_users) ==
    IF team_map = <<>> THEN allowed
    ELSE LET entry == Head(team_map)
             old == IF HasKey(allowed, entry.name)
                    THEN Lookup(allowed, entry.name)
                    ELSE [name |-> entry.name, id |-> entry.team.id, users |-> <<>>]
         IN  AddRoleUsers_Overwrite(
                 Store(allowed, [old EXCEPT !.users = Ids(role_users)]),
                 Tail(team_map), role_users)

\* AddRoleUsers restricted to the teams of the instance groups that the
\* organization of the current pass references
RECURSIVE AddRoleUsers_Referenced(_, _, _)
AddRoleUsers_Referenced(allowed, team_map, role_users) ==
    IF team_map = <<>> THEN allowed
    ELSE LET entry == Head(team_map)
             old == IF HasKey(allowed, entry.name)
                    THEN Lookup(allowed, entry.name)
                    ELSE [name |-> entry.name, id |-> entry.team.id, users |-> <<>>]
             referenced ==
                 \E j \in 1..Len(InstanceGroups) :
                     /\ InstanceGroups[j].id
                            \in fix.org_igs[loc.organizations[loc.org_idx].id]
                     /\ entry.name = TeamName(InstanceGroups[j].name)
         IN  AddRoleUsers_Referenced(
                 Store(allowed,
                       [old EXCEPT !.users =
                           IF referenced THEN @ \o Ids(role_users) ELSE @]),
                 Tail(team_map), role_users)

\* for team_name, team_object in team_map.items():
\*     create the entry if missing, then extend its users by the role users
RECURSIVE AddRoleUsers(_, _, _)
AddRoleUsers(allowed, team_map, role_users) ==
    IF team_map = <<>> THEN allowed
    ELSE LET entry == Head(team_map)
             old == IF HasKey(allowed, entry.name)
                    THEN Lookup(allowed, entry.name)
                    ELSE [name |-> entry.name, id |-> entry.team.id, users |-> <<>>]
         IN  AddRoleUsers(
                 Store(allowed, [old EXCEPT !.users = @ \o Ids(role_users)]),
                 Tail(team_map), role_users)

\* for role in role_from_org_to_allow: the passes of one organization, as a
\* function of the role list
RECURSIVE RolesPass(_, _, _, _)
RolesPass(allowed, org, roles, team_map) ==
    IF roles = <<>> THEN allowed
    ELSE RolesPass(AddRoleUsers(allowed, team_map,
                                UserEntities(fix.org_users[org.id][Head(roles)])),
                   org, Tail(roles), team_map)

\* for organization in organizations: allowed_users_per_ig as a function of
\* the organization list, the role list and the registry
RECURSIVE OrgsPass(_, _, _, _)
OrgsPass(allowed, orgs, roles, team_map) ==
    IF orgs = <<>> THEN allowed
    ELSE OrgsPass(RolesPass(allowed, Head(orgs), roles, team_map),
                  Tail(orgs), roles, team_map)

\* target_list = set(allowed_users_per_ig[team_name]["users"])
TargetList(allowed, name) == Range(Lookup(allowed, name).users)

\* for team_name, ... in team_map.items(): the reconciliation loop header
NextTeam(l, i) ==
    IF i > Len(l.team_map)
    THEN [pc |-> "done", status |-> "completed", loc |-> [l EXCEPT !.team_idx = i]]
    ELSE [pc |-> "team_users", status |-> "running", loc |-> [l EXCEPT !.team_idx = i]]

\* for organization in organizations: for role in role_from_org_to_allow
NextOrgRole(l) ==
    IF l.role_idx < Len(role_from_org_to_allow)
    THEN [pc |-> "role_users", status |-> "running",
          loc |-> [l EXCEPT !.role_idx = @ + 1]]
    ELSE IF l.org_idx < Len(l.organizations)
    THEN [pc |-> "role_users", status |-> "running",
          loc |-> [l EXCEPT !.org_idx = @ + 1, !.role_idx = 1]]
    ELSE NextTeam(l, 1)

organization == loc.organizations[loc.org_idx]
role == role_from_org_to_allow[loc.role_idx]

ListOrganizations ==
    /\ IsRunning /\ pc = "organizations"
    /\ Paged(GetCall("organizations", None, ""), ServedOrganizations,
               LET e == Entities(ServedOrganizations)
                   l == [Returned(loc) EXCEPT !.organizations = e,
                                              !.allowed_users_per_ig = <<>>,
                                              !.org_idx = 1, !.role_idx = 1]
               IN  IF e = <<>> THEN NextTeam(l, 1)
                   ELSE [pc |-> "role_users", status |-> "running", loc |-> l])

ListRoleUsers ==
    /\ IsRunning /\ pc = "role_users"
    /\ Paged(GetCall("organizations", organization.id, role),
             UserEntities(fix.org_users[organization.id][role]),
             [pc |-> "org_instance_groups", status |-> "running",
              loc |-> [Returned(loc) EXCEPT
                         !.role_users =
                             Entities(UserEntities(
                                 fix.org_users[organization.id][role]))]])

ListOrgInstanceGroups ==
    /\ IsRunning /\ pc = "org_instance_groups"
    /\ Paged(GetCall("organizations", organization.id, "instance_groups"),
             ServedOrgInstanceGroups(organization.id),
               NextOrgRole([Returned(loc) EXCEPT
                   !.org_instance_groups =
                       Entities(ServedOrgInstanceGroups(organization.id)),
                   !.allowed_users_per_ig =
                       AddRoleUsers(@, loc.team_map, loc.role_users)]))

----------------------------------------------------------------------------
(* Membership reconciler: main.py 395-456 *)

\* ensure target list is implemented: for user_id in target_list
EnterAdd(l, todo) ==
    IF todo = {}
    THEN NextTeam([l EXCEPT !.target_todo = {}], l.team_idx + 1)
    ELSE [pc |-> "add_users", status |-> "running",
          loc |-> [l EXCEPT !.target_todo = todo]]

\* remove users not to be added: for team_user in team_user_list
EnterRemove(l, k) ==
    IF k > Len(l.team_user_list)
    THEN EnterAdd([l EXCEPT !.user_idx = k], l.target_list)
    ELSE [pc |-> "remove_users", status |-> "running",
          loc |-> [l EXCEPT !.user_idx = k]]

reconciled_team_name == loc.team_map[loc.team_idx].name
reconciled_team_id == Lookup(loc.allowed_users_per_ig, reconciled_team_name).id
team_user == loc.team_user_list[loc.user_idx]

\* ListTeamUsers without the request: the team is taken to have the members
\* known when the registry was built (none)
ListTeamUsers_NoFetch ==
    /\ IsRunning /\ pc = "team_users"
    /\ Goto([pc |-> "team_object_roles", status |-> "running",
             loc |-> [Returned(loc) EXCEPT
                !.team_user_list = <<>>,
                !.target_list = TargetList(loc.allowed_users_per_ig,
                                           reconciled_team_name),
                !.current_user_list_id = {},
                !.seen_team_users = Append(@,
                    [name |-> reconciled_team_name,
                     id |-> reconciled_team_id,
                     actual |-> {},
                     target |-> TargetList(loc.allowed_users_per_ig,
                                           reconciled_team_name)])]])
    /\ UNCHANGED <<ctl, fix, prev, calls>>

\* allowed_users_per_ig[team_name] raises KeyError for a team that no
\* organization/role pass recorded (an empty organization listing).
ListTeamUsers ==
    /\ IsRunning /\ pc = "team_users"
    /\ IF ~HasKey(loc.allowed_users_per_ig, reconciled_team_name)
       THEN /\ status' = "exception"
            /\ UNCHANGED <<ctl, fix, loc, pc, prev, calls>>
       ELSE Paged(GetCall("teams", reconciled_team_id, "users"),
                  UserEntities(ctl.members[reconciled_team_id]),
                  LET e == Entities(UserEntities(ctl.members[reconciled_team_id]))
                  IN
                    [pc |-> "team_object_roles", status |-> "running",
                     loc |-> [Returned(loc) EXCEPT
                        !.team_user_list = e,
                        !.target_list =
                            Range(Lookup(loc.allowed_users_per_ig,
                                         reconciled_team_name).users),
                        !.current_user_list_id = {},
                        !.seen_team_users = Append(@,
                            [name |-> reconciled_team_name,
                             id |-> reconciled_team_id,
                             actual |-> Range(Ids(e)),
                             target |-> Range(Lookup(loc.allowed_users_per_ig,
                                                     reconciled_team_name).users)])]])

\* ListTeamObjectRoles with member_role_id resolved once and kept for the
\* teams that follow
ListTeamObjectRoles_ResolvedOnce ==
    /\ IsRunning /\ pc = "team_object_roles"
    /\ Paged(GetCall("teams", reconciled_team_id, "object_roles"),
             ServedTeamObjectRoles(reconciled_team_id),
             EnterRemove([Returned(loc) EXCEPT
                            !.member_role_id =
                                IF @ # None THEN @
                                ELSE RoleIdNamed(Entities(ServedTeamObjectRoles(
                                                reconciled_team_id)), "Member")],
                         1))

\* member_role_id = None, then the first role named "Member" of the team's
\* object roles: main.py 410-420
ListTeamObjectRoles ==
    /\ IsRunning /\ pc = "team_object_roles"
    /\ Paged(GetCall("teams", reconciled_team_id, "object_roles"),
             ServedTeamObjectRoles(reconciled_team_id),
             EnterRemove([Returned(loc) EXCEPT
                            !.member_role_id =
                                RoleIdNamed(Entities(ServedTeamObjectRoles(
                                                reconciled_team_id)), "Member")],
                         1))

\* KeepTeamUser that stays on the same team user
KeepTeamUser_SameUser ==
    /\ IsRunning /\ pc = "remove_users"
    /\ team_user.id \in loc.target_list
    /\ Goto(EnterRemove([loc EXCEPT !.current_user_list_id = @ \cup {team_user.id}],
                        loc.user_idx))
    /\ UNCHANGED <<ctl, fix, prev, calls>>

\* else: current_user_list_id.add(team_user["id"])
KeepTeamUser ==
    /\ IsRunning /\ pc = "remove_users"
    /\ team_user.id \in loc.target_list
    /\ Goto(EnterRemove([loc EXCEPT !.current_user_list_id = @ \cup {team_user.id}],
                        loc.user_idx + 1))
    /\ UNCHANGED <<ctl, fix, prev, calls>>

\* entity_name=f"users/{user_id}/roles" before any "for user_id in ..." ran:
\* UnboundLocalError.
RemoveTeamUserUnbound ==
    /\ IsRunning /\ pc = "remove_users"
    /\ team_user.id \notin loc.target_list
    /\ loc.user_id = Unbound
    /\ status' = "exception"
    /\ UNCHANGED <<ctl, fix, loc, pc, prev, calls>>

\* The disassociation is addressed to user_id, the variable of the later
\* "for user_id in target_list" loop, not to team_user["id"].
RemoveTeamUser ==
    /\ IsRunning /\ pc = "remove_users"
    /\ team_user.id \notin loc.target_list
    /\ loc.user_id # Unbound
    /\ LET call == RoleCall("users", loc.user_id, loc.member_role_id, TRUE)
       IN  \/ RaiseForStatus(call)
           \/ /\ calls' = Append(calls, call)
              /\ ctl' = UserRoleEffect(ctl, loc.user_id, loc.member_role_id, TRUE)
              /\ Goto(EnterRemove(loc, loc.user_idx + 1))
              /\ UNCHANGED <<fix, prev>>

\* for user_id in target_list: if user_id not in current_user_list_id: associate
\* (a set is iterated in no specified order)
AddMissingUser ==
    /\ IsRunning /\ pc = "add_users"
    /\ \E user_id \in loc.target_todo :
         /\ user_id \notin loc.current_user_list_id
         /\ LET call == RoleCall("users", user_id, loc.member_role_id, FALSE)
            IN  \/ RaiseForStatus(call)
                \/ /\ calls' = Append(calls, call)
                   /\ ctl' = UserRoleEffect(ctl, user_id, loc.member_role_id, FALSE)
                   /\ Goto(EnterAdd([loc EXCEPT !.user_id = user_id],
                                    loc.target_todo \ {user_id}))
                   /\ UNCHANGED <<fix, prev>>

SkipPresentUser ==
    /\ IsRunning /\ pc = "add_users"
    /\ \E user_id \in loc.target_todo :
         /\ user_id \in loc.current_user_list_id
         /\ Goto(EnterAdd([loc EXCEPT !.user_id = user_id],
                          loc.target_todo \ {user_id}))
    /\ UNCHANGED <<ctl, fix, prev, calls>>

----------------------------------------------------------------------------
(* Sequential runs *)

\* The command is invoked again after the previous invocation ended.
StartRun ==
    /\ ~IsRunning
    /\ prev' = status
    /\ status' = "running"
    /\ pc' = "instance_groups"
    /\ loc' = InitLoc
    /\ calls' = <<>>
    /\ UNCHANGED <<ctl, fix>>

Next ==
    \/ ListInstanceGroups
    \/ FindParentOrg
    \/ GetIgObjectRoles
    \/ ListUseRoleUsers
    \/ RemoveUseRole
    \/ FindTeam
    \/ CreateTeam
    \/ RefetchTeam
    \/ GrantUse
    \/ ListOrganizations
    \/ ListRoleUsers
    \/ ListOrgInstanceGroups
    \/ ListTeamUsers
    \/ ListTeamObjectRoles
    \/ KeepTeamUser
    \/ RemoveTeamUserUnbound
    \/ RemoveTeamUser
    \/ AddMissingUser
    \/ SkipPresentUser
    \/ StartRun

Spec == Init /\ [][Next]_vars

\* A run that has not ended takes its next step: the process is sequential
\* and every request it sends is answered.
FairSpec == Spec /\ WF_vars(IsRunning /\ Next)

----------------------------------------------------------------------------
(* Vocabulary of the properties *)

\* Every instance group exposes its Use role and every team its Member role.
RolesResolved ==
    /\ \A g \in IGIds : fix.has_use[g]
    /\ \A t \in TeamIds : fix.has_member[t]

IsMutating(c) == c.verb = "POST"

\* POST users/{user}/roles/ {"id": role_id[, "disassociate": true]}
IsUserRoleCall(c, role_id, dis) ==
    /\ c.verb = "POST" /\ c.ent = "users" /\ c.sub = "roles"
    /\ c.role = role_id /\ c.disassociate = dis

UserRoleCalls(role_id, dis) ==
    {i \in 1..Len(calls) : IsUserRoleCall(calls[i], role_id, dis)}

IgIdOfTeam(name) ==
    InstanceGroups[CHOOSE j \in 1..Len(InstanceGroups) :
                      TeamName(InstanceGroups[j].name) = name].id

\* The desired-membership calculator has produced allowed_users_per_ig.
CalculatorDone ==
    pc \in {"team_users", "team_object_roles", "remove_users", "add_users", "done"}

\* The teams whose reconciliation is over: those before the current one, and
\* the current one too when the reconciler raised while working on it.
ReconciledTeams ==
    {k \in 1..Len(loc.seen_team_users) : k < loc.team_idx \/ status = "exception"}

----------------------------------------------------------------------------
(* Claims *)

\* C1: after a run that completes, every team of the registry has exactly the
\* members of the desired set computed for it in that run.
C1_Convergence ==
    (status = "completed" /\ RolesResolved) =>
        \A i \in 1..Len(loc.team_map) :
            ctl.members[loc.team_map[i].team.id] =
                Range(Lookup(loc.allowed_users_per_ig, loc.team_map[i].name).users)

\* C2: a run that follows a completed run gets no mutating call through to
\* the controller (no team creation, no role association or disassociation).
C2_SecondRunIssuesNoMutation ==
    (prev = "completed" /\ RolesResolved) =>
        \A i \in 1..Len(calls) : ~(IsMutating(calls[i]) /\ calls[i].ok)

\* C3: the desired set of the team backing instance group g holds exactly the
\* holders of an allowed role in the organizations that reference g.
C3_DesiredScopedToReferencingOrgs ==
    (CalculatorDone /\ RolesResolved) =>
        \A k \in 1..Len(loc.allowed_users_per_ig) :
            LET entry == loc.allowed_users_per_ig[k]
                g == IgIdOfTeam(entry.name)
                orgs == {o \in {loc.organizations[j].id :
                                  j \in 1..Len(loc.organizations)} :
                           g \in fix.org_igs[o]}
            IN  Range(entry.users) =
                    UNION {fix.org_users[o][r] :
                             o \in orgs, r \in Range(role_from_org_to_allow)}

\* C4: for every reconciled team, the Member-role disassociate calls are
\* addressed to exactly the users of actual \ desired, one call each, and the
\* associate calls to exactly the users of desired \ actual.
C4_ExactDifferenceCalls ==
    RolesResolved =>
        \A k \in ReconciledTeams :
            LET r == loc.seen_team_users[k]
                removed == UserRoleCalls(MemberRoleId(r.id), TRUE)
                added == UserRoleCalls(MemberRoleId(r.id), FALSE)
            IN  /\ {calls[i].id : i \in removed} = r.actual \ r.target
                /\ Cardinality(removed) = Cardinality(r.actual \ r.target)
                /\ {calls[i].id : i \in added} = r.target \ r.actual
                /\ Cardinality(added) = Cardinality(r.target \ r.actual)

SkippedGroups ==
    {j \in 1..Len(InstanceGroups) :
        InstanceGroups[j].name \in skip_list_instance_group}

\* C5: an instance group of the skip-list gets no call (no object-role or
\* role-user listing, no team lookup or creation, no Use-role association or
\* disassociation), no registry entry, and the controller keeps its team
\* absent and its direct Use holders.
C5_SkipListHonored ==
    \A j \in SkippedGroups :
        LET g == InstanceGroups[j]
        IN  /\ ~HasKey(loc.team_map, TeamName(g.name))
            /\ \A i \in 1..Len(calls) :
                   /\ calls[i].name # TeamName(g.name)
                   /\ calls[i].role # UseRoleId(g.id)
                   /\ ~(calls[i].ent = "roles" /\ calls[i].id = UseRoleId(g.id))
                   /\ ~(calls[i].ent = "instance_groups" /\ calls[i].id = g.id)
            /\ ctl.teams[TeamName(g.name)] = 0
            /\ ctl.use_users[g.id] = Users
            /\ \A t \in TeamIds : UseRoleId(g.id) \notin ctl.team_roles[t]

C5_Witness ==
    /\ status = "completed"
    /\ \E j \in 1..Len(loc.instance_groups) :
           loc.instance_groups[j].name \in skip_list_instance_group
    /\ Len(loc.team_map) = Cardinality(Retained)
    /\ \E i \in 1..Len(calls) : IsMutating(calls[i]) /\ calls[i].ok

IsCreateTeam(c) == c.verb = "POST" /\ c.ent = "teams" /\ c.sub = ""
IsFindTeam(c, name) ==
    c.verb = "GET" /\ c.ent = "teams" /\ c.sub = "find" /\ c.name = name /\ c.ok

\* C6: a team is created only right after a lookup of the same name that
\* found nothing, so no name ever has more than one team: a team created by
\* one run is found, not created again, by the next.
C6_FindOrCreate ==
    /\ [](\A n \in TeamNames : ctl.teams[n] <= 1)
    /\ [][(Len(calls') = Len(calls) + 1 /\ IsCreateTeam(calls'[Len(calls')]))
            => /\ Len(calls) > 0
               /\ IsFindTeam(calls[Len(calls)], calls'[Len(calls')].name)
               /\ ctl.teams[calls'[Len(calls')].name] = 0]_vars

\* A team created by an earlier run is in the registry of this run, which
\* issued no create call for it.
C6_Witness ==
    \E n \in ctl.created :
        /\ HasKey(loc.team_map, n)
        /\ \A i \in 1..Len(calls) : ~(IsCreateTeam(calls[i]) /\ calls[i].name = n)

\* POST teams/{id}/roles/ {"id": role_id}
IsGrant(c, role_id) ==
    c.verb = "POST" /\ c.ent = "teams" /\ c.sub = "roles" /\ c.role = role_id

\* C7: with cleanup enabled, a run that is over (and was not stopped by a
\* non-2xx answer) has issued, for every user the Use-role listing of a
\* retained instance group returned, a disassociate call that precedes the
\* grant of that Use role to the team.
C7_CleanupPrecedesGrant ==
    (fix.cleanup_use_role /\ RolesResolved
       /\ status \in {"completed", "exception"}) =>
        \A k \in 1..Len(loc.seen_use_users) :
            LET r == loc.seen_use_users[k]
            IN  \A u \in r.users :
                    \E i \in UserRoleCalls(r.role, TRUE) :
                        /\ calls[i].id = u
                        /\ \A j \in 1..Len(calls) :
                               IsGrant(calls[j], r.role) => i < j

LaterStages ==
    {"organizations", "role_users", "org_instance_groups",
     "team_users", "team_object_roles", "remove_users", "add_users", "done"}

\* C8: no call carries a missing (null) Use role id, no team is looked up or
\* created for an instance group without a Use role, and no later stage runs
\* when a retained instance group has no Use role.
C8_AbortOnMissingUse ==
    /\ \A i \in 1..Len(calls) :
           /\ ~(calls[i].ent = "roles" /\ calls[i].id = None)
           /\ ~(calls[i].ent = "teams" /\ calls[i].sub = "roles"
                  /\ calls[i].role = None)
           /\ \A j \in 1..Len(InstanceGroups) :
                  (calls[i].ent = "teams"
                     /\ calls[i].name = TeamName(InstanceGroups[j].name))
                  => fix.has_use[InstanceGroups[j].id]
    /\ (\E g \in Retained : ~fix.has_use[g]) => pc \notin LaterStages

\* C9: the call that got a non-2xx answer is the last call of its run (no
\* further call, no retry), the run is then in the failed state and never
\* completes, and neither the failing call nor anything after it in the run
\* changes the controller (nothing is rolled back).
C9_FailFast ==
    /\ [](/\ \A i \in 1..Len(calls) : ~calls[i].ok => i = Len(calls)
          /\ (calls # <<>> /\ ~calls[Len(calls)].ok) => status = "http_error")
    /\ [][(calls' # <<>> /\ ~calls'[Len(calls')].ok) => ctl' = ctl]_vars

\* A run that had applied a mutation is stopped by a failing call.
C9_Witness ==
    /\ status = "http_error"
    /\ ~calls[Len(calls)].ok
    /\ \E i \in 1..Len(calls) : IsMutating(calls[i]) /\ calls[i].ok

\* C10: without the parent organization a run gets no further than the
\* lookup of it: it ends with exit(1) once the lookup answered, never
\* completes, issues no mutating call and no call about any instance group,
\* and records nothing in the registry.
C10_NoParentNoWork ==
    ~fix.parent =>
        /\ pc \in {"instance_groups", "find_org"}
        /\ status \in {"running", "exit1", "http_error"}
        /\ (calls # <<>> /\ calls[Len(calls)].ent = "organizations"
              /\ calls[Len(calls)].ok) => status = "exit1"
        /\ \A i \in 1..Len(calls) :
               /\ ~IsMutating(calls[i])
               /\ calls[i].id = None
               /\ calls[i].ent \in {"instance_groups", "organizations"}
        /\ loc.team_map = <<>>
        /\ loc.ig_idx = 0

\* The lookup of the parent organization answered "absent" and the run ended.
C10_Witness ==
    /\ status = "exit1"
    /\ ~fix.parent
    /\ calls[Len(calls)].ent = "organizations" /\ calls[Len(calls)].ok

\* C11: no associate or disassociate call is issued with a missing (null)
\* Member role id: a team whose object roles hold no Member role gets no
\* users/{id}/roles call.
C11_AbortOnMissingMember ==
    \A i \in 1..Len(calls) :
        ~(calls[i].verb = "POST" /\ calls[i].ent = "users"
            /\ calls[i].sub = "roles" /\ calls[i].role = None)

\* C12: within one run and for every team, no user id is the target of both
\* a Member-role associate call and a Member-role disassociate call of that
\* team.
C12_NoUserBothAddedAndRemoved ==
    RolesResolved =>
        \A t \in TeamIds :
            {calls[i].id : i \in UserRoleCalls(MemberRoleId(t), TRUE)}
              \cap {calls[i].id : i \in UserRoleCalls(MemberRoleId(t), FALSE)} = {}

\* C13: reconciling a team changes the membership of no other team: every
\* associate or disassociate call issued while a team is reconciled carries
\* the Member role id that this team's own object roles resolve to, and a
\* step of the run changes no membership but that of the team under
\* reconciliation.
C13_NoCrossContamination ==
    [][IF IsRunning /\ pc \in {"remove_users", "add_users"}
       THEN /\ \A u \in TeamIds \ {reconciled_team_id} :
                   ctl'.members[u] = ctl.members[u]
            /\ Len(calls') > Len(calls) =>
                   /\ calls'[Len(calls')].ent = "users"
                   /\ calls'[Len(calls')].role =
                          RoleIdNamed(ServedTeamObjectRoles(reconciled_team_id),
                                      "Member")
       ELSE ctl'.members = ctl.members]_vars

\* While the second team is reconciled, a disassociate call with its Member
\* role went to a user who is and stays a member of the first team.
C13_Witness ==
    /\ pc \in {"remove_users", "add_users"}
    /\ loc.team_idx = 2
    /\ \E i \in UserRoleCalls(MemberRoleId(loc.team_map[2].team.id), TRUE) :
           /\ calls[i].ok
           /\ calls[i].id \in ctl.members[loc.team_map[1].team.id]
           /\ calls[i].id \in loc.target_list

\* The orders in which the elements of a list without repetition can come.
Orders(s) == {p \in [1..Len(s) -> Range(s)] : Range(p) = Range(s)}

\* C14: the desired set of every team does not depend on the order in which
\* the organizations and the allowed role names are iterated: the calculator
\* run over any other order of the organizations this run listed (and of the
\* role names) gives every team the set this run computed; a user who holds
\* roles in several organizations is in the set once, so the add loop sends
\* at most one association per user and team.
C14_OrderIndependent ==
    CalculatorDone =>
        /\ loc.allowed_users_per_ig =
               OrgsPass(<<>>, loc.organizations, role_from_org_to_allow,
                        loc.team_map)
        /\ \A orgs \in Orders(loc.organizations),
              roles \in Orders(role_from_org_to_allow) :
               \A k \in 1..Len(loc.team_map) :
                   TargetList(OrgsPass(<<>>, orgs, roles, loc.team_map),
                              loc.team_map[k].name)
                     = TargetList(loc.allowed_users_per_ig, loc.team_map[k].name)
        /\ \A t \in TeamIds :
               \A i, j \in UserRoleCalls(MemberRoleId(t), FALSE) :
                   calls[i].id = calls[j].id => i = j

\* The two organizations have different holders, user 1 holds the role in
\* both and is listed twice for a team whose add loop has run.
C14_Witness ==
    /\ status = "completed"
    /\ Len(loc.organizations) = 2
    /\ fix.org_users[loc.organizations[1].id][role_from_org_to_allow[1]] = {1}
    /\ fix.org_users[loc.organizations[2].id][role_from_org_to_allow[1]] = Users
    /\ \E k \in 1..Len(loc.allowed_users_per_ig) :
           /\ Len(loc.allowed_users_per_ig[k].users) = 1 + MaxUsers
           /\ TargetList(loc.allowed_users_per_ig,
                         loc.allowed_users_per_ig[k].name) = Users
    /\ \E i \in 1..Len(calls) : calls[i].ent = "users" /\ calls[i].ok

\* A mutating call of the registry builder: team creation, Use grant to a
\* team, disassociation of a direct Use holder.
IsRegistryMutation(c) ==
    /\ c.verb = "POST"
    /\ \/ c.ent = "teams"
       \/ c.ent = "users" /\ \E g \in IGIds : c.role = UseRoleId(g)

\* A request of the desired-membership calculator.
IsDesiredFetch(c) ==
    c.verb = "GET" /\ c.ent = "organizations" /\ c.sub # "find"

\* GET teams/{id}/users
IsMemberFetch(c) == c.verb = "GET" /\ c.ent = "teams" /\ c.sub = "users"

\* An associate or disassociate call of the reconciler.
IsMemberCall(c) ==
    /\ c.verb = "POST" /\ c.ent = "users" /\ c.sub = "roles"
    /\ ~IsRegistryMutation(c)

\* C15: the stages run in order.  Every mutating call of the registry builder
\* precedes the first request of the calculator, which starts with all
\* retained instance groups in the registry; the listing of a team's members
\* comes after every registry mutation and its answer is what the controller
\* holds at that time; every Member-role call follows the listing of the
\* members of the team whose Member role it carries, with no other team's
\* listing in between.
C15_StagesInOrder ==
    /\ \A i, j \in 1..Len(calls) :
           (IsRegistryMutation(calls[i])
              /\ (IsDesiredFetch(calls[j]) \/ IsMemberFetch(calls[j])
                    \/ IsMemberCall(calls[j])))
           => i < j
    /\ (\E j \in 1..Len(calls) : IsDesiredFetch(calls[j]))
           => Len(loc.team_map) = Cardinality(Retained)
    /\ pc = "team_object_roles" =>
           Range(Ids(loc.team_user_list)) = ctl.members[reconciled_team_id]
    /\ \A j \in 1..Len(calls) :
           IsMemberCall(calls[j]) =>
               \E i \in 1..(j - 1) :
                   /\ IsMemberFetch(calls[i]) /\ calls[i].ok
                   /\ calls[j].role =
                          RoleIdNamed(ServedTeamObjectRoles(calls[i].id), "Member")
                   /\ \A k \in (i + 1)..(j - 1) :
                          IsMemberFetch(calls[k]) => calls[k].id = calls[i].id

\* A completed run created a team, granted a Use role and changed a
\* membership.
C15_Witness ==
    /\ status = "completed"
    /\ \E i \in 1..Len(calls) : IsCreateTeam(calls[i])
    /\ \E i \in 1..Len(calls) :
           calls[i].ent = "teams" /\ calls[i].sub = "roles" /\ calls[i].role # None
    /\ \E i \in 1..Len(calls) : IsMemberCall(calls[i]) /\ calls[i].disassociate
    /\ \E i \in 1..Len(calls) : IsMemberCall(calls[i]) /\ ~calls[i].disassociate

C17_ListAllWholeOrNothing ==
    /\ \A i \in 1..Len(calls) :
           (calls[i].verb = "GET" /\ calls[i].page # 0) =>
               /\ i > 1
               /\ calls[i - 1].ok
               /\ calls[i - 1].verb = "GET"
               /\ calls[i - 1].ent = calls[i].ent
               /\ calls[i - 1].id = calls[i].id
               /\ calls[i - 1].sub = calls[i].sub
               /\ calls[i - 1].page + PageSize = calls[i].page
    /\ Len(loc.entities) = loc.url
    /\ IF pc = "instance_groups"
       THEN /\ loc.instance_groups = <<>>
            /\ loc.entities = SubSeq(InstanceGroups, 1, loc.url)
       ELSE loc.instance_groups = InstanceGroups
    /\ IF pc \in LaterStages \ {"organizations"}
       THEN loc.organizations = ServedOrganizations
       ELSE loc.organizations = <<>>
    /\ pc = "org_instance_groups" =>
           loc.role_users = UserEntities(fix.org_users[organization.id][role])
    /\ pc = "team_object_roles" =>
           loc.team_user_list = UserEntities(ctl.members[reconciled_team_id])
    /\ pc = "remove_use_role" =>
           loc.users_with_use_role = ServedRoleUsers(loc.ig_use_role_id)

\* The instance groups came in more than one page and the program went on
\* with all of them.
C17_Witness ==
    /\ pc = "find_org"
    /\ Len(loc.instance_groups) > PageSize
    /\ \E i \in 1..Len(calls) :
           calls[i].ent = "instance_groups" /\ calls[i].page # 0 /\ calls[i].ok

\* C18: after a run that completed, the registry has exactly one entry per
\* instance group outside the skip-list, the team of the entry is the team
\* the controller holds under the prefixed name of that instance group, and
\* that team holds the Use role of that instance group.
C18_RegistryAfterCompletion ==
    status = "completed" =>
        /\ Len(loc.team_map) = Cardinality(Retained)
        /\ \A j \in 1..Len(InstanceGroups) :
               LET g == InstanceGroups[j]
                   n == TeamName(g.name)
               IN  g.name \notin skip_list_instance_group =>
                       /\ Cardinality({k \in 1..Len(loc.team_map) :
                                          loc.team_map[k].name = n}) = 1
                       /\ ctl.teams[n] = 1
                       /\ Lookup(loc.team_map, n).team = FoundTeam(n)
                       /\ UseRoleId(g.id) \in ctl.team_roles[TeamIdOf(n)]

\* C19: every run ends, completed or aborted, and while it runs the loops
\* over the instance groups, the organizations and the teams never go back
\* to an element they have left.
C19_Terminates ==
    /\ IsRunning ~> ~IsRunning
    /\ [][(IsRunning /\ IsRunning') =>
              /\ loc'.ig_idx >= loc.ig_idx
              /\ loc'.org_idx >= loc.org_idx
              /\ loc'.team_idx >= loc.team_idx]_vars

\* A run went through the three loops to the end, with more than one page,
\* instance group, organization and team behind it.
C19_Witness ==
    /\ status = "completed"
    /\ loc.ig_idx > Len(InstanceGroups)
    /\ loc.org_idx = Len(ServedOrganizations) /\ loc.org_idx > 1
    /\ loc.team_idx > Len(loc.team_map) /\ loc.team_idx > 2
    /\ \E i \in 1..Len(calls) : calls[i].page # 0

============================================================================
